---------------------------- MODULE Spec2Model ----------------------------
(***************************************************************************)
(* Model of comment-remover: the language classifier                      *)
(* (language_patterns.py), the diff comment scanner (comment_detector.py) *)
(* and the line rewriter (file_modifier.py).                               *)
(*                                                                         *)
(* Text is modelled as a sequence of one-character strings, so that        *)
(* str.strip, str.find, str.count, `in` and slicing are computed the way   *)
(* Python computes them.  Python's None and the empty list are both        *)
(* modelled by the empty sequence (the code only tests them for truth).    *)
(***************************************************************************)
EXTENDS Integers, Sequences, FiniteSets, TLC

(***************************************************************************)
(* Python string primitives                                                *)
(***************************************************************************)
None == <<>>

NL == "\n"
CR == "\r"
DQ == "\""
SQ == "'"
BS == "\\"

\* str.strip() / rstrip() / lstrip() without argument remove whitespace.
IsSpace(c) == c \in {" ", "\t", NL, CR}

RECURSIVE LStrip(_)
LStrip(s) ==
  IF s = <<>> THEN s
  ELSE IF IsSpace(Head(s)) THEN LStrip(Tail(s)) ELSE s

RECURSIVE RStrip(_)
RStrip(s) ==
  IF s = <<>> THEN s
  ELSE IF IsSpace(s[Len(s)]) THEN RStrip(SubSeq(s, 1, Len(s) - 1)) ELSE s

Strip(s) == RStrip(LStrip(s))

\* s[i0:] and s[:i0] with a 0-based index, as Python slices.
SliceTo(s, i0) == SubSeq(s, 1, i0)
SliceFrom(s, i0) == SubSeq(s, i0 + 1, Len(s))

\* m occurs in s at the 0-based index i0.
MatchAt(s, m, i0) ==
  /\ i0 >= 0
  /\ i0 + Len(m) <= Len(s)
  /\ \A k \in 1..Len(m) : s[i0 + k] = m[k]

\* s.find(m, start): the lowest 0-based index >= start of m in s, or -1.
RECURSIVE FindFrom(_, _, _)
FindFrom(s, m, start) ==
  IF start + Len(m) > Len(s) THEN -1
  ELSE IF MatchAt(s, m, start) THEN start
  ELSE FindFrom(s, m, start + 1)

Find(s, m) == FindFrom(s, m, 0)

\* m in s
Contains(s, m) == Find(s, m) # -1

\* s.endswith(m)
EndsWith(s, m) == Len(m) <= Len(s) /\ MatchAt(s, m, Len(s) - Len(m))

\* s.count(m): the number of non-overlapping occurrences, left to right.
RECURSIVE CountFrom(_, _, _)
CountFrom(s, m, start) ==
  LET i == FindFrom(s, m, start)
  IN  IF i = -1 THEN 0 ELSE 1 + CountFrom(s, m, i + Len(m))

Count(s, m) == CountFrom(s, m, 0)

\* list.index(x): the 0-based position of the first element equal to x.
ListIndex(list, x) ==
  (CHOOSE k \in 1..Len(list) :
     list[k] = x /\ \A j \in 1..(k - 1) : list[j] # x) - 1

(***************************************************************************)
(* language_patterns.py                                                    *)
(***************************************************************************)
EXTENSION_TO_LANGUAGE ==
  << <<<<".", "c">>, "c_style">>,
     <<<<".", "h">>, "c_style">>,
     <<<<".", "c", "p", "p">>, "c_style">>,
     <<<<".", "h", "p", "p">>, "c_style">>,
     <<<<".", "c", "c">>, "c_style">>,
     <<<<".", "c", "x", "x">>, "c_style">>,
     <<<<".", "j", "a", "v", "a">>, "c_style">>,
     <<<<".", "j", "s">>, "c_style">>,
     <<<<".", "j", "s", "x">>, "c_style">>,
     <<<<".", "t", "s">>, "c_style">>,
     <<<<".", "t", "s", "x">>, "c_style">>,
     <<<<".", "g", "o">>, "c_style">>,
     <<<<".", "r", "s">>, "c_style">>,
     <<<<".", "c", "s">>, "c_style">>,
     <<<<".", "k", "t">>, "c_style">>,
     <<<<".", "s", "w", "i", "f", "t">>, "c_style">>,
     <<<<".", "s", "c", "a", "l", "a">>, "c_style">>,
     <<<<".", "m">>, "c_style">>,
     <<<<".", "m", "m">>, "c_style">>,
     <<<<".", "p", "y">>, "python">>,
     <<<<".", "r", "b">>, "ruby">>,
     <<<<".", "s", "h">>, "shell">>,
     <<<<".", "b", "a", "s", "h">>, "shell">>,
     <<<<".", "z", "s", "h">>, "shell">>,
     <<<<".", "f", "i", "s", "h">>, "shell">>,
     <<<<".", "p", "l">>, "perl">>,
     <<<<".", "p", "m">>, "perl">>,
     <<<<".", "p", "h", "p">>, "php">>,
     <<<<".", "s", "q", "l">>, "sql">>,
     <<<<".", "h", "t", "m", "l">>, "html">>,
     <<<<".", "h", "t", "m">>, "html">>,
     <<<<".", "x", "m", "l">>, "html">>,
     <<<<".", "c", "s", "s">>, "css">>,
     <<<<".", "s", "c", "s", "s">>, "css">>,
     <<<<".", "s", "a", "s", "s">>, "css">>,
     <<<<".", "l", "e", "s", "s">>, "css">>,
     <<<<".", "y", "a", "m", "l">>, "yaml">>,
     <<<<".", "y", "m", "l">>, "yaml">>,
     <<<<".", "r">>, "r">>,
     <<<<".", "R">>, "r">>,
     <<<<".", "l", "u", "a">>, "lua">>,
     <<<<".", "v", "i", "m">>, "vim">> >>

LANGUAGE_PATTERNS ==
  [c_style |->
      [single_line |-> <<<<"/", "/">>>>,
       multi_line_start |-> <<<<"/", "*">>>>,
       multi_line_end |-> <<<<"*", "/">>>>],
   python |->
      [single_line |-> <<<<"#">>>>,
       multi_line_start |-> <<<<"\"", "\"", "\"">>, <<"'", "'", "'">>>>,
       multi_line_end |-> <<<<"\"", "\"", "\"">>, <<"'", "'", "'">>>>],
   ruby |->
      [single_line |-> <<<<"#">>>>,
       multi_line_start |-> <<<<"=", "b", "e", "g", "i", "n">>>>,
       multi_line_end |-> <<<<"=", "e", "n", "d">>>>],
   shell |->
      [single_line |-> <<<<"#">>>>,
       multi_line_start |-> <<>>,
       multi_line_end |-> <<>>],
   perl |->
      [single_line |-> <<<<"#">>>>,
       multi_line_start |-> <<<<"=", "p", "o", "d">>>>,
       multi_line_end |-> <<<<"=", "c", "u", "t">>>>],
   php |->
      [single_line |-> <<<<"/", "/">>, <<"#">>>>,
       multi_line_start |-> <<<<"/", "*">>>>,
       multi_line_end |-> <<<<"*", "/">>>>],
   sql |->
      [single_line |-> <<<<"-", "-">>>>,
       multi_line_start |-> <<<<"/", "*">>>>,
       multi_line_end |-> <<<<"*", "/">>>>],
   html |->
      [single_line |-> <<>>,
       multi_line_start |-> <<<<"<", "!", "-", "-">>>>,
       multi_line_end |-> <<<<"-", "-", ">">>>>],
   css |->
      [single_line |-> <<>>,
       multi_line_start |-> <<<<"/", "*">>>>,
       multi_line_end |-> <<<<"*", "/">>>>],
   yaml |->
      [single_line |-> <<<<"#">>>>,
       multi_line_start |-> <<>>,
       multi_line_end |-> <<>>],
   r |->
      [single_line |-> <<<<"#">>>>,
       multi_line_start |-> <<>>,
       multi_line_end |-> <<>>],
   lua |->
      [single_line |-> <<<<"-", "-">>>>,
       multi_line_start |-> <<<<"-", "-", "[", "[">>>>,
       multi_line_end |-> <<<<"]", "]">>>>],
   vim |->
      [single_line |-> <<<<"\"">>>>,
       multi_line_start |-> <<>>,
       multi_line_end |-> <<>>]]

NoLanguage == "None"

\* Mutant: the extension is looked for anywhere in the path.
RECURSIVE DetectAnywhereFrom(_, _)
DetectAnywhereFrom(filepath, k) ==
  IF k > Len(EXTENSION_TO_LANGUAGE) THEN NoLanguage
  ELSE IF Contains(filepath, EXTENSION_TO_LANGUAGE[k][1])
       THEN EXTENSION_TO_LANGUAGE[k][2]
       ELSE DetectAnywhereFrom(filepath, k + 1)

detect_language_anywhere(filepath) == DetectAnywhereFrom(filepath, 1)

\* Mutant: a path that ends with no extension of the table is taken for a
\* C-style file.
RECURSIVE DetectFrom(_, _)
detect_language_default(filepath) ==
  IF DetectFrom(filepath, 1) = NoLanguage THEN "c_style"
  ELSE DetectFrom(filepath, 1)

\* detect_language: the language of the first table entry, in insertion
\* order, whose extension the path ends with; NoLanguage (None) otherwise.
DetectFrom(filepath, k) ==
  IF k > Len(EXTENSION_TO_LANGUAGE) THEN NoLanguage
  ELSE IF EndsWith(filepath, EXTENSION_TO_LANGUAGE[k][1])
       THEN EXTENSION_TO_LANGUAGE[k][2]
       ELSE DetectFrom(filepath, k + 1)

detect_language(filepath) == DetectFrom(filepath, 1)

\* get_comment_pattern: dict.get, None for an unknown language.
NoPattern ==
  [single_line |-> <<>>, multi_line_start |-> <<>>, multi_line_end |-> <<>>]

HasPattern(language) == language \in DOMAIN LANGUAGE_PATTERNS

get_comment_pattern(language) ==
  IF HasPattern(language) THEN LANGUAGE_PATTERNS[language] ELSE NoPattern

(***************************************************************************)
(* comment_detector.py: the per-line checks                                *)
(***************************************************************************)

\* Mutant: the escaped quotes are not subtracted.
IsInStringNoEscape(text) ==
  (Count(text, <<SQ>>) % 2 = 1) \/ (Count(text, <<DQ>>) % 2 = 1)

\* _is_in_string: parity of the quotes that no backslash precedes.
IsInString(text) ==
  LET single_quotes == Count(text, <<SQ>>) - Count(text, <<BS, SQ>>)
      double_quotes == Count(text, <<DQ>>) - Count(text, <<BS, DQ>>)
  IN  (single_quotes % 2 = 1) \/ (double_quotes % 2 = 1)

\* The end marker paired with the start marker at 1-based position i
\* (outside a block: the first end marker when the list is shorter).
PairedEnd(pattern, i) ==
  IF i <= Len(pattern.multi_line_end)
  THEN pattern.multi_line_end[i]
  ELSE pattern.multi_line_end[1]

\* The loop over the end markers while inside a block.
IsBlockEnd(stripped, pattern, current_start_marker) ==
  \E k \in 1..Len(pattern.multi_line_end) :
    LET end_marker == pattern.multi_line_end[k]
    IN  IF current_start_marker # None /\ pattern.multi_line_start # <<>>
        THEN LET start_idx ==
                   ListIndex(pattern.multi_line_start, current_start_marker)
             IN  /\ start_idx < Len(pattern.multi_line_end)
                 /\ end_marker = pattern.multi_line_end[start_idx + 1]
                 /\ Contains(stripped, end_marker)
        ELSE Contains(stripped, end_marker)

\* The 1-based position of the first configured start marker that occurs
\* in the stripped line, 0 when none does.
FirstStart(stripped, pattern) ==
  LET hits == {i \in 1..Len(pattern.multi_line_start) :
                 Contains(stripped, pattern.multi_line_start[i])}
  IN  IF hits = {} THEN 0
      ELSE CHOOSE i \in hits : \A j \in hits : i <= j

\* The block opened by start_marker also closes on this line: the code
\* asks only whether the end marker occurs anywhere in the stripped line.
ClosesOnLine(stripped, start_marker, end_marker) ==
  Contains(stripped, end_marker)

\* Mutant: the result never names the start marker.
MultilineResultNoMarker(is_comment, in_multiline, start_marker, is_inline) ==
  [is_comment |-> is_comment, in_multiline |-> in_multiline,
   start_marker |-> None, is_inline |-> is_inline]

MultilineResult(is_comment, in_multiline, start_marker, is_inline) ==
  [is_comment |-> is_comment, in_multiline |-> in_multiline,
   start_marker |-> start_marker, is_inline |-> is_inline]

\* Mutant: a start marker without its end marker does not open a block.
CheckOutsideNoOpen(stripped, pattern, i) ==
  MultilineResult(i # 0, FALSE, None, FALSE)

\* _check_multiline_comment on the stripped line, outside a block, with i
\* the position of the first start marker found (0: none).
CheckOutside(stripped, pattern, i) ==
  IF i # 0
  THEN LET start_marker == pattern.multi_line_start[i]
           end_marker == PairedEnd(pattern, i)
       IN  IF ClosesOnLine(stripped, start_marker, end_marker)
           THEN LET start_idx == Find(stripped, start_marker)
                    before_comment == Strip(SliceTo(stripped, start_idx))
                IN  MultilineResult(TRUE, FALSE, None,
                                    Len(before_comment) > 0)
           ELSE MultilineResult(TRUE, TRUE, start_marker, FALSE)
  ELSE MultilineResult(FALSE, FALSE, None, FALSE)

\* Mutant: a line that closes the block opens another one when it holds a
\* start marker.
CheckStrippedReopens(stripped, pattern, in_multiline, start_marker) ==
  IF in_multiline
  THEN IF IsBlockEnd(stripped, pattern, start_marker)
       THEN IF FirstStart(stripped, pattern) # 0
            THEN MultilineResult(
                   TRUE, TRUE,
                   pattern.multi_line_start[FirstStart(stripped, pattern)],
                   FALSE)
            ELSE MultilineResult(TRUE, FALSE, None, FALSE)
       ELSE MultilineResult(TRUE, TRUE, start_marker, FALSE)
  ELSE CheckOutside(stripped, pattern, FirstStart(stripped, pattern))

\* _check_multiline_comment on the stripped line.
CheckStripped(stripped, pattern, in_multiline, start_marker) ==
  IF in_multiline
  THEN IF IsBlockEnd(stripped, pattern, start_marker)
       THEN MultilineResult(TRUE, FALSE, None, FALSE)
       ELSE MultilineResult(TRUE, TRUE, start_marker, FALSE)
  ELSE CheckOutside(stripped, pattern, FirstStart(stripped, pattern))

\* _check_multiline_comment
CheckMultilineComment(text, pattern, in_multiline, start_marker) ==
  CheckStripped(Strip(text), pattern, in_multiline, start_marker)

\* The outcome of _check_single_line_comment: None, or {'is_inline': b}.
NoComment == [found |-> FALSE, is_inline |-> FALSE]
SingleResult(is_inline) == [found |-> TRUE, is_inline |-> is_inline]

\* Mutant: a marker at index 0 is reported as an inline comment.
AtLineStartInline == SingleResult(TRUE)

\* The decision taken for a marker found at index 0 of the stripped line.
AtLineStart == SingleResult(FALSE)

\* The loop over pattern.single_line from the 1-based position k on;
\* AtMarker is the loop body once marker_idx = stripped.find(marker) is
\* known.
RECURSIVE SingleFrom(_, _, _)
AtMarker(stripped, single_line, k, marker_idx) ==
  IF marker_idx = -1 THEN SingleFrom(stripped, single_line, k + 1)
  ELSE IF marker_idx = 0 THEN AtLineStart
  ELSE IF IsInString(SliceTo(stripped, marker_idx))
       THEN SingleFrom(stripped, single_line, k + 1)
  ELSE IF Strip(SliceTo(stripped, marker_idx)) # <<>> THEN SingleResult(TRUE)
  ELSE SingleResult(FALSE)

SingleFrom(stripped, single_line, k) ==
  IF k > Len(single_line) THEN NoComment
  ELSE AtMarker(stripped, single_line, k, Find(stripped, single_line[k]))

\* _check_single_line_comment on the stripped line.
SingleStripped(stripped, pattern) ==
  IF stripped = <<>> THEN NoComment
  ELSE SingleFrom(stripped, pattern.single_line, 1)

\* _check_single_line_comment
CheckSingleLineComment(text, pattern) == SingleStripped(Strip(text), pattern)

(***************************************************************************)
(* The input: a parsed unified diff (unidiff.PatchSet), read file by       *)
(* file, hunk by hunk, line by line.  The files, hunks and lines below     *)
(* are the values the scanner is explored on.                              *)
(***************************************************************************)
MaxFiles == 2
MaxLines == 3
MaxDepth == 3

\* The unchanged lines a diff leaves out before each hunk.
HunkGap == 1

P_js == <<"a", ".", "j", "s">>
P_py == <<"t", ".", "p", "y">>
P_rb == <<"a", ".", "r", "b">>
P_sh == <<"a", ".", "s", "h">>
P_pl == <<"a", ".", "p", "l">>
P_php == <<"a", ".", "p", "h", "p">>
P_sql == <<"a", ".", "s", "q", "l">>
P_html == <<"a", ".", "h", "t", "m", "l">>
P_css == <<"a", ".", "c", "s", "s">>
P_yml == <<"a", ".", "y", "m", "l">>
P_r == <<"a", ".", "r">>
P_lua == <<"a", ".", "l", "u", "a">>
P_vim == <<"a", ".", "v", "i", "m">>
P_txt == <<"a", ".", "t", "x", "t">>
P_noext == <<"M", "a", "k", "e", "f", "i", "l", "e">>
P_py_txt == <<"a", ".", "p", "y", ".", "t", "x", "t">>

Paths ==
  { P_js, P_py, P_rb, P_sh, P_pl, P_php,
    P_sql, P_html, P_css, P_yml, P_r, P_lua,
    P_vim, P_txt, P_noext, P_py_txt }

\* The paths whole diffs are explored on: a profile with single-line and
\* block markers, one whose block start and end markers are equal, one
\* with block markers only; and two paths without a language, one of
\* which holds a known extension before its last one.
DiffPaths == { P_js, P_py, P_html, P_noext, P_py_txt }

L_open == <<"/", "*">>
L_mid == <<" ", "*", " ", "t", "e", "x", "t">>
L_close == <<" ", "*", "/">>
L_code_open == <<"x", " ", "/", "*", " ", "o">>
L_code_block == <<"x", " ", "/", "*", " ", "c", " ", "*", "/">>
L_block == <<"/", "*", " ", "c", " ", "*", "/">>
L_block_slash == <<"/", "*", " ", "c", " ", "*", "/", " ", "/", "/", " ", "d">>
L_close_open == <<"*", "/", " ", "/", "*">>
L_slash == <<" ", " ", "/", "/", " ", "c">>
L_code_slash == <<"x", " ", "=", " ", "5", " ", "/", "/", " ", "c">>
L_hash == <<" ", " ", " ", " ", "#", " ", "c", "o", "m", "m", "e", "n", "t">>
L_code_hash == <<" ", " ", " ", " ", "x", " ", "=", " ", "5", " ", " ", "#", " ", "c", "o", "m", "m", "e", "n", "t">>
L_url == <<"u", " ", "=", " ", "\"", "h", ":", "/", "/", "e", "#", "\"">>
L_str_hash == <<"x", " ", "=", " ", "\"", "a", "\"", " ", "#", " ", "c">>
L_esc_hash == <<"'", "\\", "'", "'", " ", "#", " ", "c">>
L_apos_hash == <<"i", "t", "'", "s", " ", "#", " ", "c">>
L_str_slash_hash == <<"\"", "/", "/", "\"", " ", "#", " ", "c">>
L_hash_slash == <<"#", " ", "a", " ", "/", "/", " ", "b">>
L_doc3 == <<"\"", "\"", "\"">>
L_doc3_line == <<"\"", "\"", "\"", " ", "d", " ", "\"", "\"", "\"">>
L_doc1 == <<"'", "'", "'">>
L_begin == <<"=", "b", "e", "g", "i", "n">>
L_end == <<"=", "e", "n", "d">>
L_pod == <<"=", "p", "o", "d">>
L_cut == <<"=", "c", "u", "t">>
L_html_open == <<"<", "!", "-", "-">>
L_html_close == <<"-", "-", ">">>
L_html_line == <<"a", " ", "<", "!", "-", "-", " ", "c", " ", "-", "-", ">">>
L_dash == <<"-", "-", " ", "c">>
L_code_dash == <<"x", " ", "-", "-", " ", "c">>
L_lua_open == <<"-", "-", "[", "[">>
L_lua_close == <<"]", "]">>
L_vim == <<"\"", " ", "c">>
L_code_vim == <<"x", " ", "\"", " ", "c">>
L_empty == <<>>
L_blank == <<" ", " ">>
L_code == <<"x", " ", "=", " ", "1">>

LineBodies ==
  { L_open, L_mid, L_close, L_code_open, L_code_block,
    L_block, L_block_slash, L_close_open, L_slash, L_code_slash,
    L_hash, L_code_hash, L_url, L_str_hash, L_esc_hash,
    L_apos_hash, L_str_slash_hash, L_hash_slash, L_doc3, L_doc3_line,
    L_doc1, L_begin, L_end, L_pod, L_cut,
    L_html_open, L_html_close, L_html_line, L_dash, L_code_dash,
    L_lua_open, L_lua_close, L_vim, L_code_vim, L_empty,
    L_blank, L_code }

\* line.value keeps the line terminator of the diff line.
LineValues == {body \o <<NL>> : body \in LineBodies} \cup {L_hash \o <<CR, NL>>}

\* The lines the scan of whole diffs is explored on: for each profile a
\* block start and end, a one-line block, whole-line and inline
\* single-line comments, a marker inside a string; and lines that hold
\* no marker of any profile.
DiffBodies ==
  { L_open, L_close, L_block_slash, L_hash, L_code_hash, L_url, L_doc3,
    L_begin, L_end, L_pod, L_cut, L_html_open, L_html_close, L_code_dash,
    L_lua_open, L_lua_close, L_vim }

DiffValues == {body \o <<NL>> : body \in DiffBodies}

PlainValues == {body \o <<NL>> : body \in {L_code, L_mid, L_empty}}

\* Context and removed lines are never looked into; these hold comment
\* text and a block end.
UnscannedValues == {body \o <<NL>> : body \in {L_hash, L_close}}

LineTypes == {"added", "removed", "context"}

\* is_added_file / is_modified_file / neither (a removed file)
FileKinds == {"added", "modified", "removed"}

(***************************************************************************)
(* comment_detector.py: detect_comments and _detect_comments_in_file       *)
(***************************************************************************)
VARIABLES
  pc,                    \* "files": between two patched files; "lines":
                         \* inside _detect_comments_in_file; "done": returned
  n_files,               \* patched files taken from the patch set so far
  n_lines,               \* diff lines taken so far
  filepath,              \* patched_file.path of the file being scanned
  language,              \* detect_language(filepath)
  hunk_no,               \* hunks of the current file entered so far
  hunk_empty,            \* no line of the current hunk was taken yet
  target_no,             \* the last post-image line number of the current file
  line,                  \* the diff line taken last
  in_multiline_comment,
  multiline_start_marker,
  comments,              \* the list built by _detect_comments_in_file
  comments_by_file,      \* the dict built by detect_comments
  added_nos,             \* post-image numbers of the added lines of the file
  marker_seen,           \* some added line held a marker of its file's profile
  left_open,             \* an earlier file's scan ended inside a block
  own,                   \* the scan of the current file's added lines alone
  os_linesep,            \* os.linesep of the platform the rewriter runs on
  original,              \* the bytes of the files opened for reading
  disk,                  \* the bytes of the files written
  lines,                 \* f.readlines() of the file rewritten last
  new_lines,             \* the list handed to f.writelines()
  stats,                 \* the dict built by remove_comments
  warnings,              \* the files reported as not existing
  cli                    \* main(): its surroundings, locals and returned value

vars ==
  << pc, n_files, n_lines, filepath, language, hunk_no, hunk_empty,
     target_no, line,
     in_multiline_comment, multiline_start_marker, comments,
     comments_by_file, added_nos, marker_seen, left_open, own,
     os_linesep, original, disk, lines, new_lines, stats, warnings, cli >>

\* The state of the rewriter.
rewriter_vars ==
  << os_linesep, original, disk, lines, new_lines, stats, warnings >>

NoLine == [line_type |-> "none", value |-> <<>>, target_line_no |-> 0]

CommentLine(path, line_number, is_inline) ==
  [filepath |-> path, line_number |-> line_number, is_inline |-> is_inline]

\* comments = [], in_multiline_comment = False, multiline_start_marker = None
FreshScan ==
  [comments |-> <<>>, in_multiline_comment |-> FALSE,
   multiline_start_marker |-> None]

\* Mutant: the block state is kept from the previous file.
ScanStartKeepsBlock(prev) ==
  [comments |-> <<>>, in_multiline_comment |-> prev.in_multiline_comment,
   multiline_start_marker |-> prev.multiline_start_marker]

\* The locals of _detect_comments_in_file at its entry; prev holds the
\* values the previous call ended with.
ScanStart(prev) ==
  [comments |-> <<>>, in_multiline_comment |-> FALSE,
   multiline_start_marker |-> None]

\* Mutant: context lines are scanned too.
IsScannedNotRemoved(diff_line) == diff_line.line_type # "removed"

\* Only added lines are scanned.
IsScanned(diff_line) == diff_line.line_type = "added"

\* Mutant: the single-line check runs on every line.
SkipsSingleNever(multiline_result) == FALSE

\* Mutant: the single-line check is skipped only while the block stays
\* open.
SkipsSingleInBlockOnly(multiline_result) == multiline_result.in_multiline

\* A line the block check marks as a comment is not checked again.
SkipsSingle(multiline_result) == multiline_result.is_comment

\* Mutant: the file's list is stored even when empty.
StoresAlways(file_comments) == TRUE

\* The file's list is stored only when it is not empty.
Stores(file_comments) == file_comments # <<>>

\* The appends and assignments of the line loop's body, given the results
\* of the two checks (the single-line check is not run when the block
\* check marks the line).
Record(st, path, pattern, target_line_no, multiline_result, single_result) ==
  LET has_block ==
        pattern.multi_line_start # <<>> /\ pattern.multi_line_end # <<>>
      after_block ==
        IF has_block
        THEN [comments |->
                IF multiline_result.is_comment
                THEN Append(st.comments,
                            CommentLine(path, target_line_no,
                                        multiline_result.is_inline))
                ELSE st.comments,
              in_multiline_comment |-> multiline_result.in_multiline,
              multiline_start_marker |-> multiline_result.start_marker]
        ELSE st
  IN  IF has_block /\ SkipsSingle(multiline_result) THEN after_block
      ELSE IF pattern.single_line # <<>> /\ single_result.found
           THEN [after_block EXCEPT !.comments =
                   Append(after_block.comments,
                          CommentLine(path, target_line_no,
                                      single_result.is_inline))]
           ELSE after_block

\* The body of the line loop for one added line, from the state st
\* (comments, in_multiline_comment, multiline_start_marker).
ScanAdded(st, path, pattern, value, target_line_no) ==
  Record(st, path, pattern, target_line_no,
         CheckMultilineComment(value, pattern, st.in_multiline_comment,
                               st.multiline_start_marker),
         CheckSingleLineComment(value, pattern))

\* Some marker string of the profile occurs in the text.
HoldsMarker(pattern, value) ==
  \E list \in {pattern.single_line, pattern.multi_line_start,
               pattern.multi_line_end} :
    \E k \in 1..Len(list) : Contains(value, list[k])

\* main() is not running: its locals repo, diff_text and detector, the
\* exception it caught and the value it returned are unset, and so is what
\* it would find in the current directory and in HEAD.
NoCli ==
  [repo |-> "None", diff_text |-> "None", detector |-> "None",
   raised |-> "None", returned |-> <<>>, cwd |-> "None", head |-> "None"]

\* Nothing was scanned and nothing was rewritten yet.
Idle ==
  /\ cli = NoCli
  /\ n_files = 0
  /\ n_lines = 0
  /\ filepath = <<>>
  /\ language = NoLanguage
  /\ hunk_no = 0
  /\ hunk_empty = FALSE
  /\ target_no = 0
  /\ line = NoLine
  /\ in_multiline_comment = FALSE
  /\ multiline_start_marker = None
  /\ comments = <<>>
  /\ comments_by_file = [p \in {} |-> <<>>]
  /\ added_nos = {}
  /\ marker_seen = FALSE
  /\ left_open = FALSE
  /\ own = FreshScan
  /\ original = [p \in {} |-> <<>>]
  /\ disk = [p \in {} |-> <<>>]
  /\ lines = <<>>
  /\ new_lines = <<>>
  /\ stats = [p \in {} |-> 0]
  /\ warnings = {}

\* CommentDetector(diff_text) was constructed; the scanner never consults
\* os.linesep.
Init ==
  /\ pc = "files"
  /\ os_linesep = None
  /\ Idle

\* for patched_file in self.patch_set: a removed file is passed over; so
\* is a file without language or pattern, after filepath and language
\* were assigned.
SkipFile(path, kind) ==
  /\ pc = "files"
  /\ n_files < MaxFiles
  /\ \/ kind = "removed"
     \/ detect_language(path) = NoLanguage
     \/ ~HasPattern(detect_language(path))
  /\ n_files' = n_files + 1
  /\ filepath' = IF kind = "removed" THEN filepath ELSE path
  /\ language' = IF kind = "removed" THEN language ELSE detect_language(path)
  /\ UNCHANGED << pc, n_lines, hunk_no, hunk_empty, target_no, line,
                  in_multiline_comment, multiline_start_marker, comments,
                  comments_by_file, added_nos, marker_seen, left_open, own >>
  /\ UNCHANGED rewriter_vars
  /\ UNCHANGED cli

\* The call of _detect_comments_in_file for an added or modified file of a
\* known language.
EnterFile(path, kind) ==
  /\ pc = "files"
  /\ n_files < MaxFiles
  /\ kind # "removed"
  /\ detect_language(path) # NoLanguage
  /\ HasPattern(detect_language(path))
  /\ LET st == ScanStart([comments |-> comments,
                          in_multiline_comment |-> in_multiline_comment,
                          multiline_start_marker |-> multiline_start_marker])
     IN  /\ comments' = st.comments
         /\ in_multiline_comment' = st.in_multiline_comment
         /\ multiline_start_marker' = st.multiline_start_marker
  /\ pc' = "lines"
  /\ n_files' = n_files + 1
  /\ filepath' = path
  /\ language' = detect_language(path)
  /\ hunk_no' = 0
  /\ hunk_empty' = FALSE
  /\ target_no' = 0
  /\ line' = NoLine
  /\ added_nos' = {}
  /\ own' = FreshScan
  /\ UNCHANGED << n_lines, comments_by_file, marker_seen, left_open >>
  /\ UNCHANGED rewriter_vars
  /\ UNCHANGED cli

\* Mutant: the block state is reset when a hunk starts.
NextHunkResets ==
  /\ pc = "lines"
  /\ ~hunk_empty
  /\ hunk_no' = hunk_no + 1
  /\ hunk_empty' = TRUE
  /\ target_no' = target_no + HunkGap
  /\ in_multiline_comment' = FALSE
  /\ multiline_start_marker' = None
  /\ UNCHANGED << pc, n_files, n_lines, filepath, language, line, comments,
                  comments_by_file, added_nos, marker_seen, left_open, own >>
  /\ UNCHANGED rewriter_vars
  /\ UNCHANGED cli

\* for hunk in patched_file: the next hunk starts HunkGap lines after the
\* last post-image line of the previous one (hunks come in post-image
\* order, and every hunk of a diff holds a line).
NextHunk ==
  /\ pc = "lines"
  /\ ~hunk_empty
  /\ hunk_no' = hunk_no + 1
  /\ hunk_empty' = TRUE
  /\ target_no' = target_no + HunkGap
  /\ UNCHANGED << pc, n_files, n_lines, filepath, language, line,
                  in_multiline_comment, multiline_start_marker, comments,
                  comments_by_file, added_nos, marker_seen, left_open, own >>
  /\ UNCHANGED rewriter_vars
  /\ UNCHANGED cli

\* The diff lines a file of the language is explored on.  An added line
\* without any marker of the file's profile is scanned like any other such
\* line, so the added lines are those of DiffValues that hold a marker of
\* the profile, and the plain ones.
AddedValues ==
  [lang \in DOMAIN LANGUAGE_PATTERNS |->
     {v \in DiffValues : HoldsMarker(LANGUAGE_PATTERNS[lang], v)}
       \cup PlainValues]

DiffLines(lang, line_type) ==
  IF line_type = "added"
  THEN IF HasPattern(lang) THEN AddedValues[lang] ELSE PlainValues
  ELSE UnscannedValues

\* The state the line loop carries.
ScanState ==
  [comments |-> comments, in_multiline_comment |-> in_multiline_comment,
   multiline_start_marker |-> multiline_start_marker]

\* The loop variable and the loop's state after one diff line.
Advance(diff_line, pattern, new) ==
  /\ line' = diff_line
  /\ target_no' = IF diff_line.line_type = "removed"
                  THEN target_no ELSE diff_line.target_line_no
  /\ comments' = new.comments
  /\ in_multiline_comment' = new.in_multiline_comment
  /\ multiline_start_marker' = new.multiline_start_marker
  /\ added_nos' = IF diff_line.line_type = "added"
                  THEN added_nos \cup {diff_line.target_line_no}
                  ELSE added_nos
  /\ marker_seen' = (marker_seen \/
                     (diff_line.line_type = "added"
                        /\ HoldsMarker(pattern, diff_line.value)))
  /\ own' = IF diff_line.line_type # "added" THEN own
            ELSE IF own = ScanState /\ IsScanned(diff_line) THEN new
            ELSE ScanAdded(own, filepath, pattern, diff_line.value,
                           diff_line.target_line_no)

\* for line in hunk: one diff line of the current hunk.  Added and context
\* lines carry the next post-image number; a removed line carries none (0).
TakeLine(line_type, value) ==
  /\ pc = "lines"
  /\ hunk_no >= 1
  /\ n_lines < MaxLines
  /\ LET no == IF line_type = "removed" THEN 0 ELSE target_no + 1
         diff_line == [line_type |-> line_type, value |-> value,
                       target_line_no |-> no]
         pattern == get_comment_pattern(language)
     IN  Advance(diff_line, pattern,
                 IF IsScanned(diff_line)
                 THEN ScanAdded(ScanState, filepath, pattern, value, no)
                 ELSE ScanState)
  /\ n_lines' = n_lines + 1
  /\ hunk_empty' = FALSE
  /\ UNCHANGED << pc, n_files, filepath, language, hunk_no, comments_by_file,
                  left_open >>
  /\ UNCHANGED rewriter_vars
  /\ UNCHANGED cli

\* The return of _detect_comments_in_file and `if file_comments:`.  The
\* locals of the call end with it; the block state is left as the call
\* ended it, for the next call to start from.
EndFile ==
  /\ pc = "lines"
  /\ ~hunk_empty
  /\ pc' = "files"
  /\ comments_by_file' =
       IF Stores(comments)
       THEN [p \in DOMAIN comments_by_file \cup {filepath} |->
               IF p = filepath THEN comments ELSE comments_by_file[p]]
       ELSE comments_by_file
  /\ filepath' = <<>>
  /\ language' = NoLanguage
  /\ hunk_no' = 0
  /\ hunk_empty' = FALSE
  /\ target_no' = 0
  /\ line' = NoLine
  /\ comments' = <<>>
  /\ added_nos' = {}
  /\ own' = FreshScan
  /\ left_open' = (left_open \/ in_multiline_comment)
  /\ UNCHANGED << n_files, n_lines, in_multiline_comment,
                  multiline_start_marker, marker_seen >>
  /\ UNCHANGED rewriter_vars
  /\ UNCHANGED cli

\* return comments_by_file
Return ==
  /\ pc = "files"
  /\ pc' = "done"
  /\ UNCHANGED << n_files, n_lines, filepath, language, hunk_no, hunk_empty,
                  target_no, line, in_multiline_comment,
                  multiline_start_marker, comments, comments_by_file,
                  added_nos, marker_seen, left_open, own >>
  /\ UNCHANGED rewriter_vars
  /\ UNCHANGED cli

Next ==
  \/ \E path \in DiffPaths, kind \in FileKinds : SkipFile(path, kind)
  \/ \E path \in DiffPaths, kind \in FileKinds : EnterFile(path, kind)
  \/ NextHunk
  \/ \E line_type \in LineTypes :
       \E value \in DiffLines(language, line_type) : TakeLine(line_type, value)
  \/ EndFile
  \/ Return

Spec == Init /\ [][Next]_vars

\* The scan of a diff of one file with at most MaxDepth lines, all of
\* them added: every path of Paths, and every line of LineValues whatever
\* the file's language.
NextLine ==
  \/ n_files = 0 /\ \E path \in Paths : SkipFile(path, "modified")
  \/ n_files = 0 /\ \E path \in Paths : EnterFile(path, "modified")
  \/ hunk_no = 0 /\ NextHunk
  \/ n_lines < MaxDepth /\ \E value \in LineValues : TakeLine("added", value)
  \/ EndFile
  \/ Return

SpecLine == Init /\ [][NextLine]_vars

(***************************************************************************)
(* file_modifier.py                                                        *)
(***************************************************************************)
\* A byte of a file is a one-character string when it is ASCII.  XE9 is
\* the byte 0xE9 (Latin-1 e-acute, followed by no continuation byte: not
\* UTF-8), UFFFD the character U+FFFD that decoding with errors='replace'
\* puts in its place, and UFFFD_utf8 that character's UTF-8 bytes.
XE9 == "xE9"
UFFFD == "uFFFD"
UFFFD_utf8 == <<"xEF", "xBF", "xBD">>

\* bytes.decode('utf-8', errors='replace')
RECURSIVE Decode(_)
Decode(bytes) ==
  IF bytes = <<>> THEN <<>>
  ELSE IF MatchAt(bytes, UFFFD_utf8, 0)
       THEN <<UFFFD>> \o Decode(SliceFrom(bytes, Len(UFFFD_utf8)))
       ELSE IF Head(bytes) = XE9
            THEN <<UFFFD>> \o Decode(Tail(bytes))
            ELSE <<Head(bytes)>> \o Decode(Tail(bytes))

\* str.encode('utf-8')
RECURSIVE Encode(_)
Encode(text) ==
  IF text = <<>> THEN <<>>
  ELSE IF Head(text) = UFFFD
       THEN UFFFD_utf8 \o Encode(Tail(text))
       ELSE <<Head(text)>> \o Encode(Tail(text))

\* open(file_path, 'r') reads with newline=None: '\r\n' and '\r' are
\* translated to '\n'.
RECURSIVE UniversalNewlines(_)
UniversalNewlines(text) ==
  IF text = <<>> THEN <<>>
  ELSE IF Head(text) = CR
       THEN <<NL>> \o UniversalNewlines(
                        IF Len(text) >= 2 /\ text[2] = NL
                        THEN SliceFrom(text, 2) ELSE Tail(text))
       ELSE <<Head(text)>> \o UniversalNewlines(Tail(text))

\* open(file_path, 'w') writes with newline=None: '\n' is translated to
\* os.linesep.
RECURSIVE WriteNewlines(_, _)
WriteNewlines(text, linesep) ==
  IF text = <<>> THEN <<>>
  ELSE IF Head(text) = NL
       THEN linesep \o WriteNewlines(Tail(text), linesep)
       ELSE <<Head(text)>> \o WriteNewlines(Tail(text), linesep)

\* f.readlines(): the text cut after each '\n'.
RECURSIVE SplitLines(_)
SplitLines(text) ==
  IF text = <<>> THEN <<>>
  ELSE LET i == Find(text, <<NL>>)
       IN  IF i = -1 THEN <<text>>
           ELSE <<SliceTo(text, i + 1)>> \o SplitLines(SliceFrom(text, i + 1))

\* f.writelines(new_lines): the strings one after the other.
RECURSIVE Join(_)
Join(list) == IF list = <<>> THEN <<>> ELSE Head(list) \o Join(Tail(list))

\* with open(file_path, 'r', encoding='utf-8', errors='replace') as f:
\*     lines = f.readlines()
ReadLines(bytes) == SplitLines(UniversalNewlines(Decode(bytes)))

\* with open(file_path, 'w', encoding='utf-8') as f: f.writelines(new_lines)
WriteLines(list, linesep) == Encode(WriteNewlines(Join(list), linesep))

\* FileModifier._is_in_string
ModifierIsInString(text) ==
  LET single_quotes == Count(text, <<SQ>>) - Count(text, <<BS, SQ>>)
      double_quotes == Count(text, <<DQ>>) - Count(text, <<BS, DQ>>)
  IN  (single_quotes % 2 = 1) \/ (double_quotes % 2 = 1)

\* The markers _remove_inline_comment tries, whatever the file's language.
single_line_markers == << <<"/", "/">>, <<"#">>, <<"-", "-">> >>

\* The inline block comment `/* ... */` of _remove_inline_comment.
RemoveInlineBlock(text) ==
  LET start_marker == <<"/", "*">>
      end_marker == <<"*", "/">>
      start_idx == Find(text, start_marker)
      before_comment == SliceTo(text, start_idx)
      end_idx == FindFrom(text, end_marker, start_idx)
      after_comment == SliceFrom(text, end_idx + Len(end_marker))
      cleaned == RStrip(before_comment) \o LStrip(after_comment)
  IN  IF start_idx # -1 /\ ~ModifierIsInString(before_comment) /\ end_idx # -1
      THEN IF cleaned # <<>> /\ ~EndsWith(cleaned, <<NL>>)
                /\ EndsWith(text, <<NL>>)
           THEN cleaned \o <<NL>>
           ELSE cleaned
      ELSE text

\* for marker in single_line_markers, from the k-th marker on.
RECURSIVE RemoveInlineFrom(_, _)
RemoveInlineFrom(text, k) ==
  IF k > Len(single_line_markers) THEN RemoveInlineBlock(text)
  ELSE LET marker_idx == Find(text, single_line_markers[k])
           before_marker == SliceTo(text, marker_idx)
           cleaned == RStrip(before_marker)
       IN  IF marker_idx = -1 THEN RemoveInlineFrom(text, k + 1)
           ELSE IF ModifierIsInString(before_marker)
                THEN RemoveInlineFrom(text, k + 1)
                ELSE IF EndsWith(text, <<NL>>)
                     THEN cleaned \o <<NL>>
                     ELSE cleaned

\* FileModifier._remove_inline_comment; original_line is never read.
RemoveInlineComment(text, original_line) == RemoveInlineFrom(text, 1)

\* Mutant: the line after the comment's line is taken.
LineIdxNext(comment) == comment.line_number

\* line_idx = comment.line_number - 1
LineIdx(comment) == comment.line_number - 1

\* for comment in comments, from the k-th occurrence on: marks holds
\* lines_to_remove and lines_to_modify.
RECURSIVE MarkFrom(_, _, _, _)

\* Mutant: an out-of-range occurrence ends the loop.
SkipOutOfRangeBreak(file_lines, occurrences, k, marks) == marks

\* if line_idx < 0 or line_idx >= len(lines): continue
SkipOutOfRange(file_lines, occurrences, k, marks) ==
  MarkFrom(file_lines, occurrences, k + 1, marks)

MarkFrom(file_lines, occurrences, k, marks) ==
  IF k > Len(occurrences) THEN marks
  ELSE LET comment == occurrences[k]
           line_idx == LineIdx(comment)
       IN  IF line_idx < 0 \/ line_idx >= Len(file_lines)
           THEN SkipOutOfRange(file_lines, occurrences, k, marks)
           ELSE IF comment.is_inline
                THEN MarkFrom(file_lines, occurrences, k + 1,
                       [marks EXCEPT !.lines_to_modify =
                          (line_idx :> RemoveInlineComment(
                                         file_lines[line_idx + 1], None))
                            @@ @])
                ELSE MarkFrom(file_lines, occurrences, k + 1,
                       [marks EXCEPT !.lines_to_remove = @ \cup {line_idx}])

\* lines_to_remove = set(); lines_to_modify = {}; then the loop.
Mark(file_lines, occurrences) ==
  MarkFrom(file_lines, occurrences, 1,
           [lines_to_remove |-> {}, lines_to_modify |-> [i \in {} |-> <<>>]])

\* for idx, line in enumerate(lines), from index idx on.
RECURSIVE RebuildFrom(_, _, _)
RebuildFrom(file_lines, marks, idx) ==
  IF idx >= Len(file_lines) THEN <<>>
  ELSE (IF idx \in marks.lines_to_remove THEN <<>>
        ELSE IF idx \in DOMAIN marks.lines_to_modify
             THEN <<marks.lines_to_modify[idx]>>
             ELSE <<file_lines[idx + 1]>>)
         \o RebuildFrom(file_lines, marks, idx + 1)

\* modifications_count = len(lines_to_remove) + len(lines_to_modify)
ModificationsCount(marks) ==
  Cardinality(marks.lines_to_remove)
    + Cardinality(DOMAIN marks.lines_to_modify)

\* The files the rewriter is explored on hold at most MaxFileLines lines,
\* and an occurrence list holds at most MaxOccurrences occurrences.
MaxFileLines == 2
MaxOccurrences == 2

\* `caf<0xE9>`: a line of a Latin-1 file.
L_latin1 == <<"c", "a", "f", XE9>>

\* `x  # c`: code followed by an inline comment.
L_tail_hash == <<"x", " ", " ", "#", " ", "c">>

FileBodies == {L_tail_hash, L_latin1}
Terminators == {<<NL>>, <<CR, NL>>, <<CR>>}
OsLineseps == {<<NL>>, <<CR, NL>>}
RewritePaths == {P_py}

\* The files of n lines that all end with a terminator.
RECURSIVE Terminated(_)
Terminated(n) ==
  IF n = 0 THEN {<<>>}
  ELSE {head \o body \o terminator :
          head \in Terminated(n - 1), body \in FileBodies,
          terminator \in Terminators}

\* The files of at most MaxFileLines lines; the last line may lack its
\* terminator.
FileContents ==
  UNION {Terminated(n) : n \in 0..MaxFileLines}
    \cup UNION {{head \o body : head \in Terminated(n), body \in FileBodies} :
                  n \in 0..(MaxFileLines - 1)}

\* The lists of at most MaxOccurrences occurrences, of line numbers from 0
\* (before the first line) to MaxFileLines (past the last line of every
\* file but the longest), in any order and with repetitions.
OccurrenceLists(path) ==
  UNION {[1..k -> {CommentLine(path, line_number, is_inline) :
                     line_number \in 0..MaxFileLines,
                     is_inline \in BOOLEAN}] :
           k \in 0..MaxOccurrences}

\* The variables of the scanner that the rewriter leaves alone.
scanner_rest ==
  << n_lines, language, hunk_no, hunk_empty, target_no, line,
     in_multiline_comment, multiline_start_marker, comments_by_file,
     added_nos, marker_seen, left_open, own >>

\* The keys of the mapping that the loop of remove_comments has taken.
Taken == DOMAIN stats \cup warnings

\* SkipMissing with the missing file entered in the statistics.
SkipMissingCounted(path, occurrences) ==
  /\ pc = "rewrite"
  /\ n_files < MaxFiles
  /\ path \notin Taken
  /\ n_files' = n_files + 1
  /\ filepath' = path
  /\ comments' = occurrences
  /\ stats' = (path :> 0) @@ stats
  /\ lines' = <<>>
  /\ new_lines' = <<>>
  /\ UNCHANGED << pc, os_linesep, original, disk, warnings >>
  /\ UNCHANGED scanner_rest
  /\ UNCHANGED cli

\* for filepath, comments in comments_by_file.items(): the file does not
\* exist; a warning is printed and the loop goes on.
SkipMissing(path, occurrences) ==
  /\ pc = "rewrite"
  /\ n_files < MaxFiles
  /\ path \notin Taken
  /\ n_files' = n_files + 1
  /\ filepath' = path
  /\ comments' = occurrences
  /\ warnings' = warnings \cup {path}
  /\ lines' = <<>>
  /\ new_lines' = <<>>
  /\ UNCHANGED << pc, os_linesep, original, disk, stats >>
  /\ UNCHANGED scanner_rest
  /\ UNCHANGED cli

\* for filepath, comments in comments_by_file.items(): the file exists
\* with the given bytes; _remove_comments_from_file reads it, marks the
\* lines, rebuilds and writes them, and its count is stored in stats.
RemoveCommentsFromFile(path, occurrences, bytes) ==
  /\ pc = "rewrite"
  /\ n_files < MaxFiles
  /\ path \notin Taken
  /\ n_files' = n_files + 1
  /\ filepath' = path
  /\ comments' = occurrences
  /\ original' = (path :> bytes) @@ original
  /\ \E file_lines \in {ReadLines(bytes)} :
       \E marks \in {Mark(file_lines, occurrences)} :
         \E rebuilt \in {RebuildFrom(file_lines, marks, 0)} :
           /\ lines' = file_lines
           /\ new_lines' = rebuilt
           /\ disk' = (path :> WriteLines(rebuilt, os_linesep)) @@ disk
           /\ stats' = (path :> ModificationsCount(marks)) @@ stats
  /\ UNCHANGED << pc, os_linesep, warnings >>
  /\ UNCHANGED scanner_rest
  /\ UNCHANGED cli

\* return stats; the locals of the call end with it.
ReturnStats ==
  /\ pc = "rewrite"
  /\ pc' = "returned"
  /\ filepath' = <<>>
  /\ comments' = <<>>
  /\ lines' = <<>>
  /\ new_lines' = <<>>
  /\ UNCHANGED << n_files, os_linesep, original, disk, stats, warnings >>
  /\ UNCHANGED scanner_rest
  /\ UNCHANGED cli

\* FileModifier(repo_root) was constructed on a platform of either line
\* separator, and remove_comments was called.
InitRewrite ==
  /\ pc = "rewrite"
  /\ os_linesep \in OsLineseps
  /\ Idle

\* remove_comments on a mapping of one key: every list of
\* OccurrenceLists, and every file of FileContents or no file.
NextRewrite ==
  \/ /\ n_files = 0
     /\ \E path \in RewritePaths :
          \E occurrences \in OccurrenceLists(path) :
            SkipMissing(path, occurrences)
  \/ /\ n_files = 0
     /\ \E path \in RewritePaths :
          \E occurrences \in OccurrenceLists(path), bytes \in FileContents :
            RemoveCommentsFromFile(path, occurrences, bytes)
  \/ ReturnStats

SpecRewrite == InitRewrite /\ [][NextRewrite]_vars

\* The paths of a mapping of several files.
MappingPaths == {P_py, P_js}

\* The occurrence lists of a mapping of several files: the scanner stores
\* no empty list.
MappingLists(path) ==
  { <<CommentLine(path, 1, TRUE)>>, <<CommentLine(path, 1, FALSE)>>,
    <<CommentLine(path, 2, FALSE), CommentLine(path, 1, TRUE)>> }

\* The mappings handed to remove_comments.
Mappings ==
  UNION {{m \in [keys -> UNION {MappingLists(path) : path \in keys}] :
            \A path \in keys : m[path] \in MappingLists(path)} :
           keys \in SUBSET MappingPaths}

\* The contents of the files of a mapping of several files.
MappingContents ==
  { <<>>, L_tail_hash \o <<NL>>, L_tail_hash \o <<NL>> \o L_latin1 }

\* remove_comments(comments_by_file) is called.
CallRemoveComments(mapping) ==
  /\ pc = "call"
  /\ pc' = "rewrite"
  /\ comments_by_file' = mapping
  /\ UNCHANGED << n_files, n_lines, filepath, language, hunk_no, hunk_empty,
                  target_no, line, in_multiline_comment,
                  multiline_start_marker, comments, added_nos, marker_seen,
                  left_open, own >>
  /\ UNCHANGED rewriter_vars
  /\ UNCHANGED cli

\* The next item of comments_by_file.items() names a file that does not
\* exist.
ItemMissing(path) ==
  SkipMissing(path, comments_by_file[path])

\* The next item of comments_by_file.items() names a file that exists.
ItemExists(path, bytes) ==
  RemoveCommentsFromFile(path, comments_by_file[path], bytes)

\* The loop over comments_by_file.items() is exhausted: return stats.
ReturnAll ==
  /\ Taken = DOMAIN comments_by_file
  /\ ReturnStats

\* FileModifier(repo_root) was constructed on a platform of either line
\* separator.
InitRewriteAll ==
  /\ pc = "call"
  /\ os_linesep \in OsLineseps
  /\ Idle

\* remove_comments on a mapping of several keys, in any order of the keys;
\* each file is missing or holds one of MappingContents.
NextRewriteAll ==
  \/ \E mapping \in Mappings : CallRemoveComments(mapping)
  \/ \E path \in DOMAIN comments_by_file : ItemMissing(path)
  \/ \E path \in DOMAIN comments_by_file :
       \E bytes \in MappingContents : ItemExists(path, bytes)
  \/ ReturnAll

SpecRewriteAll == InitRewriteAll /\ [][NextRewriteAll]_vars

(***************************************************************************)
(* cli.py and git_ops.py: main                                             *)
(***************************************************************************)

\* What main() finds where it is run: no repository around the current
\* directory (InvalidGitRepositoryError), a directory below the root, a
\* dirty working tree, a clean tree at the root, or a failure that is no
\* GitValidationError (such as a bare repository, whose working_dir is
\* None).
CwdStates ==
  {"not_a_repository", "wrong_directory", "dirty", "bare", "clean"}

\* What `git show HEAD` gives: a GitCommandError, no text, text that
\* PatchSet rejects, or a diff.
HeadStates == {"failed", "empty", "malformed", "diff"}

\* The exceptions of git_ops.py that main() catches as GitValidationError.
GitValidationErrors ==
  {"not_a_repository", "wrong_directory", "dirty", "diff_failed"}

\* Mutant: the handlers return 0.
ExceptReturnsZero(e) ==
  /\ pc' = "exited"
  /\ cli' = [cli EXCEPT !.raised = e, !.returned = <<0>>]

\* except GitValidationError / except Exception: return 1
Except(e) ==
  /\ pc' = "exited"
  /\ cli' = [cli EXCEPT !.raised = e, !.returned = <<1>>]

\* Mutant: a dirty working tree passes the validation.
ValidatesDirty(cwd) == cwd \in {"clean", "dirty"}

\* find_repo_root, the comparison of the directories and
\* validate_repo_state raise nothing.
Validates(cwd) == cwd = "clean"

\* The variables of the scan and of the rewriter that main() does not
\* touch before the scan starts.
main_rest ==
  << n_files, n_lines, filepath, language, hunk_no, hunk_empty, target_no,
     line, in_multiline_comment, multiline_start_marker, comments,
     comments_by_file, added_nos, marker_seen, left_open, own >>

\* repo = ensure_at_repo_root(); repo_root = Path(repo.working_dir)
EnsureAtRepoRoot ==
  /\ pc = "main"
  /\ IF Validates(cli.cwd)
     THEN /\ pc' = "validated"
          /\ cli' = [cli EXCEPT !.repo = "Repo"]
     ELSE Except(IF cli.cwd = "bare" THEN "TypeError" ELSE cli.cwd)
  /\ UNCHANGED main_rest
  /\ UNCHANGED rewriter_vars

\* diff_text = get_head_diff(repo); if not diff_text: return 0
GetHeadDiff ==
  /\ pc = "validated"
  /\ IF cli.head = "failed" THEN Except("diff_failed")
     ELSE IF cli.head = "empty"
          THEN /\ pc' = "exited"
               /\ cli' = [cli EXCEPT !.diff_text = "", !.returned = <<0>>]
          ELSE /\ pc' = "diff"
               /\ cli' = [cli EXCEPT !.diff_text = cli.head]
  /\ UNCHANGED main_rest
  /\ UNCHANGED rewriter_vars

\* detector = CommentDetector(diff_text): PatchSet(diff_text) raises on
\* text it cannot parse; detect_comments() is entered otherwise.
NewCommentDetector ==
  /\ pc = "diff"
  /\ IF cli.diff_text = "malformed" THEN Except("parse_error")
     ELSE /\ pc' = "files"
          /\ cli' = [cli EXCEPT !.detector = "CommentDetector"]
  /\ UNCHANGED main_rest
  /\ UNCHANGED rewriter_vars

\* The locals of detect_comments end with its return.
ScanLocalsEnd ==
  /\ n_files' = 0
  /\ n_lines' = 0
  /\ filepath' = <<>>
  /\ language' = NoLanguage
  /\ in_multiline_comment' = FALSE
  /\ multiline_start_marker' = None
  /\ marker_seen' = FALSE
  /\ left_open' = FALSE
  /\ UNCHANGED << hunk_no, hunk_empty, target_no, line, comments,
                  comments_by_file, added_nos, own >>

\* if not comments_by_file: return 0
NoComments ==
  /\ pc = "done"
  /\ comments_by_file = [p \in {} |-> <<>>]
  /\ pc' = "exited"
  /\ cli' = [cli EXCEPT !.returned = <<0>>]
  /\ ScanLocalsEnd
  /\ UNCHANGED rewriter_vars

\* modifier = FileModifier(repo_root), on a platform of either line
\* separator; modifier.remove_comments(comments_by_file) is entered.
NewFileModifier(linesep) ==
  /\ pc = "done"
  /\ comments_by_file # [p \in {} |-> <<>>]
  /\ pc' = "rewrite"
  /\ os_linesep' = linesep
  /\ ScanLocalsEnd
  /\ UNCHANGED << original, disk, lines, new_lines, stats, warnings, cli >>

\* open() raises for the next item of comments_by_file.items() (the path is
\* a directory, or the file may not be read or written): the exception
\* leaves remove_comments and is caught in main().
ItemRaises(path) ==
  /\ pc = "rewrite"
  /\ path \notin Taken
  /\ Except("OSError")
  /\ filepath' = path
  /\ comments' = comments_by_file[path]
  /\ n_files' = n_files + 1
  /\ lines' = <<>>
  /\ new_lines' = <<>>
  /\ UNCHANGED << os_linesep, original, disk, stats, warnings >>
  /\ UNCHANGED scanner_rest

\* stats = modifier.remove_comments(comments_by_file) returned; return 0
Done ==
  /\ pc = "returned"
  /\ pc' = "exited"
  /\ cli' = [cli EXCEPT !.returned = <<0>>]
  /\ UNCHANGED main_rest
  /\ UNCHANGED rewriter_vars

\* The diffs main() is explored on: files of two languages, added lines
\* with a whole-line comment, an inline comment or none, and context
\* lines.
CliPaths == {P_py, P_js}

CliAdded == {body \o <<NL>> : body \in {L_hash, L_code_hash, L_slash, L_code}}

\* The files the diffs name, as found on disk.
CliContents ==
  { L_code_hash \o <<NL>>, L_hash \o <<NL>> \o L_code_hash \o <<NL>> }

\* main() is called, wherever and on whatever HEAD commit.
InitCli ==
  /\ pc = "main"
  /\ os_linesep = None
  /\ cli \in [repo : {"None"}, diff_text : {"None"}, detector : {"None"},
              raised : {"None"}, returned : {<<>>},
              cwd : CwdStates, head : HeadStates]
  /\ n_files = 0
  /\ n_lines = 0
  /\ filepath = <<>>
  /\ language = NoLanguage
  /\ hunk_no = 0
  /\ hunk_empty = FALSE
  /\ target_no = 0
  /\ line = NoLine
  /\ in_multiline_comment = FALSE
  /\ multiline_start_marker = None
  /\ comments = <<>>
  /\ comments_by_file = [p \in {} |-> <<>>]
  /\ added_nos = {}
  /\ marker_seen = FALSE
  /\ left_open = FALSE
  /\ own = FreshScan
  /\ original = [p \in {} |-> <<>>]
  /\ disk = [p \in {} |-> <<>>]
  /\ lines = <<>>
  /\ new_lines = <<>>
  /\ stats = [p \in {} |-> 0]
  /\ warnings = {}

NextCli ==
  \/ EnsureAtRepoRoot
  \/ GetHeadDiff
  \/ NewCommentDetector
  \/ \E path \in CliPaths : SkipFile(path, "removed")
  \/ \E path \in CliPaths : EnterFile(path, "modified")
  \/ NextHunk
  \/ \E value \in CliAdded : TakeLine("added", value)
  \/ TakeLine("context", L_code \o <<NL>>)
  \/ EndFile
  \/ Return
  \/ NoComments
  \/ \E linesep \in OsLineseps : NewFileModifier(linesep)
  \/ \E path \in DOMAIN comments_by_file : ItemMissing(path)
  \/ \E path \in DOMAIN comments_by_file :
       \E bytes \in CliContents : ItemExists(path, bytes)
  \/ \E path \in DOMAIN comments_by_file : ItemRaises(path)
  \/ ReturnAll
  \/ Done

SpecCli == InitCli /\ [][NextCli]_vars

(***************************************************************************)
(* One added line, scanned and then truncated as it stands on disk         *)
(***************************************************************************)

\* `x = 10 // 3  # c`
L_div_hash ==
  <<"x", " ", "=", " ", "1", "0", " ", "/", "/", " ", "3", " ", " ", "#",
    " ", "c">>

\* `# x -- c`
L_hash_dash == <<"#", " ", "x", " ", "-", "-", " ", "c">>

\* The lines the scan and the truncation are applied to: those of
\* LineValues, two lines that hold markers of several languages, and a line
\* without terminator.
InlineValues ==
  LineValues
    \cup {body \o <<NL>> : body \in {L_div_hash, L_hash_dash}}
    \cup {L_code_hash}

\* The first added line of a file of a known language, at line 1, is
\* scanned from the state _detect_comments_in_file starts in.
CheckLine(path, value) ==
  /\ pc = "line"
  /\ HasPattern(detect_language(path))
  /\ pc' = "checked"
  /\ filepath' = path
  /\ language' = detect_language(path)
  /\ line' = [line_type |-> "added", value |-> value, target_line_no |-> 1]
  /\ \E st \in {ScanAdded(FreshScan, path,
                          get_comment_pattern(detect_language(path)),
                          value, 1)} :
       /\ comments' = st.comments
       /\ in_multiline_comment' = st.in_multiline_comment
       /\ multiline_start_marker' = st.multiline_start_marker
  /\ n_lines' = 1
  /\ UNCHANGED << n_files, hunk_no, hunk_empty, target_no, comments_by_file,
                  added_nos, marker_seen, left_open, own >>
  /\ UNCHANGED rewriter_vars
  /\ UNCHANGED cli

\* _remove_inline_comment(lines[0], comment.content) on a file whose first
\* line is the line scanned.
TruncateLine ==
  /\ pc = "checked"
  /\ pc' = "truncated"
  /\ lines' = <<line.value>>
  /\ new_lines' = <<RemoveInlineComment(line.value, line.value)>>
  /\ UNCHANGED << os_linesep, original, disk, stats, warnings >>
  /\ UNCHANGED << n_files, filepath, comments >>
  /\ UNCHANGED scanner_rest
  /\ UNCHANGED cli

InitInline ==
  /\ pc = "line"
  /\ os_linesep = None
  /\ Idle

NextInline ==
  \/ \E path \in Paths : \E value \in InlineValues : CheckLine(path, value)
  \/ TruncateLine

SpecInline == InitInline /\ [][NextInline]_vars

(***************************************************************************)
(* One added line, scanned inside an open block comment                    *)
(***************************************************************************)

\* CommentPattern(multi_line_start=['/*', '<!--'], multi_line_end=['*/']):
\* a profile with fewer end markers than start markers.  The table holds
\* none; the class and _check_multiline_comment accept it.
ShortEndPattern ==
  [single_line |-> <<>>,
   multi_line_start |-> << <<"/", "*">>, <<"<", "!", "-", "-">> >>,
   multi_line_end |-> << <<"*", "/">> >>]

\* The profiles with block markers: those of the table, and ShortEndPattern.
BlockProfiles ==
  [name \in {lang \in DOMAIN LANGUAGE_PATTERNS :
               /\ LANGUAGE_PATTERNS[lang].multi_line_start # <<>>
               /\ LANGUAGE_PATTERNS[lang].multi_line_end # <<>>}
             \cup {"short_end"} |->
     IF name = "short_end" THEN ShortEndPattern ELSE LANGUAGE_PATTERNS[name]]

\* The line loop stands inside a block that the i-th start marker of the
\* profile opened.
InsideBlock(name, i) ==
  /\ pc = "block"
  /\ pc' = "inside"
  /\ language' = name
  /\ in_multiline_comment' = TRUE
  /\ multiline_start_marker' = BlockProfiles[name].multi_line_start[i]
  /\ UNCHANGED << n_files, n_lines, filepath, hunk_no, hunk_empty, target_no,
                  line, comments, comments_by_file, added_nos, marker_seen,
                  left_open, own >>
  /\ UNCHANGED rewriter_vars
  /\ UNCHANGED cli

\* The body of the line loop for the next added line.
CheckInside(value) ==
  /\ pc = "inside"
  /\ pc' = "checked"
  /\ line' = [line_type |-> "added", value |-> value,
              target_line_no |-> target_no + 1]
  /\ \E st \in {ScanAdded(ScanState, filepath, BlockProfiles[language],
                          value, target_no + 1)} :
       /\ comments' = st.comments
       /\ in_multiline_comment' = st.in_multiline_comment
       /\ multiline_start_marker' = st.multiline_start_marker
  /\ n_lines' = n_lines + 1
  /\ target_no' = target_no + 1
  /\ UNCHANGED << n_files, filepath, language, hunk_no, hunk_empty,
                  comments_by_file, added_nos, marker_seen, left_open, own >>
  /\ UNCHANGED rewriter_vars
  /\ UNCHANGED cli

InitBlock ==
  /\ pc = "block"
  /\ os_linesep = None
  /\ Idle

NextBlock ==
  \/ \E name \in DOMAIN BlockProfiles :
       \E i \in 1..Len(BlockProfiles[name].multi_line_start) :
         InsideBlock(name, i)
  \/ \E value \in LineValues : CheckInside(value)

SpecBlock == InitBlock /\ [][NextBlock]_vars

(***************************************************************************)
(* language_patterns.py: detect_language on paths of every extension       *)
(***************************************************************************)

\* What stands before the extension: a name, nothing (the path is the
\* extension itself), a name with a known extension, and a directory.
Stems == { <<"a">>, <<>>, P_py, <<"d", ".", "c", "/", "b">> }

\* The paths the classifier is applied to: every extension of the table
\* after every stem; every extension followed by an unknown one; the
\* extension without its dot, and in upper case where the table has the
\* lower case only.
ClassifyPaths ==
  {stem \o EXTENSION_TO_LANGUAGE[k][1] :
     stem \in Stems, k \in 1..Len(EXTENSION_TO_LANGUAGE)}
    \cup {<<"a">> \o EXTENSION_TO_LANGUAGE[k][1] \o <<".", "t", "x", "t">> :
            k \in 1..Len(EXTENSION_TO_LANGUAGE)}
    \cup {SliceFrom(EXTENSION_TO_LANGUAGE[k][1], 1) :
            k \in 1..Len(EXTENSION_TO_LANGUAGE)}
    \cup {P_noext, P_txt, <<"a", ".", "P", "Y">>, <<"a", ".", "C">>}

\* language = detect_language(filepath); pattern = get_comment_pattern(language)
Classify(path) ==
  /\ pc = "classify"
  /\ pc' = "classified"
  /\ filepath' = path
  /\ language' = detect_language(path)
  /\ UNCHANGED << n_files, n_lines, hunk_no, hunk_empty, target_no, line,
                  in_multiline_comment, multiline_start_marker, comments,
                  comments_by_file, added_nos, marker_seen, left_open, own >>
  /\ UNCHANGED rewriter_vars
  /\ UNCHANGED cli

InitClassify ==
  /\ pc = "classify"
  /\ os_linesep = None
  /\ Idle

NextClassify == \E path \in ClassifyPaths : Classify(path)

SpecClassify == InitClassify /\ [][NextClassify]_vars

(***************************************************************************)
(* Properties                                                              *)
(***************************************************************************)

\* A step that takes one added line of the current file.
AddedStep == n_lines' = n_lines + 1 /\ line'.line_type = "added"

\* The profile of the file being scanned, and its block marker lists.
Profile == get_comment_pattern(language)
HasBlockMarkers ==
  Profile.multi_line_start # <<>> /\ Profile.multi_line_end # <<>>

\* The occurrence recorded for the line taken by the step.
Occurrence(is_inline) ==
  [filepath |-> filepath, line_number |-> line'.target_line_no,
   is_inline |-> is_inline]

\* The end marker at the list position of start marker m.
EndPairedWith(m) ==
  Profile.multi_line_end[CHOOSE i \in 1..Len(Profile.multi_line_start) :
                           Profile.multi_line_start[i] = m]

\* C1: every occurrence carries the post-image line number of an added
\* line of its file; a context or removed line never produces one.
C1_OnlyAddedLines ==
  /\ \A k \in 1..Len(comments) : comments[k].line_number \in added_nos
  /\ line.line_type \in {"context", "removed"} =>
       \A k \in 1..Len(comments) :
         comments[k].line_number # line.target_line_no

\* A context line holding a comment was passed over after an added
\* comment line was recorded.
C1_Witness ==
  /\ pc = "lines"
  /\ language = "python"
  /\ line.line_type = "context"
  /\ line.value = L_hash \o <<NL>>
  /\ Len(comments) = 1
  /\ comments[1].line_number < line.target_line_no

\* C2: outside a block, an added line holding a block start marker and not
\* its paired end marker is recorded whole-line and opens the block; inside
\* a block every added line is recorded whole-line, and the block closes
\* exactly on a line whose stripped text holds the paired end marker.
C2_BlockSpanning ==
  [][AddedStep /\ HasBlockMarkers =>
       LET stripped == Strip(line'.value)
           opens == {i \in 1..Len(Profile.multi_line_start) :
                       /\ Contains(stripped, Profile.multi_line_start[i])
                       /\ ~Contains(stripped, Profile.multi_line_end[i])}
       IN  /\ (~in_multiline_comment /\ opens # {}) =>
                /\ comments' = Append(comments, Occurrence(FALSE))
                /\ in_multiline_comment'
                /\ \E i \in opens :
                     multiline_start_marker' = Profile.multi_line_start[i]
           /\ in_multiline_comment =>
                /\ comments' = Append(comments, Occurrence(FALSE))
                /\ IF Contains(stripped, EndPairedWith(multiline_start_marker))
                   THEN ~in_multiline_comment' /\ multiline_start_marker' = None
                   ELSE /\ in_multiline_comment'
                        /\ multiline_start_marker' = multiline_start_marker]_vars

\* The added lines `/*`, ` * text`, ` */` gave three whole-line occurrences
\* and the block is closed again.
C2_Witness ==
  /\ pc = "lines"
  /\ language = "c_style"
  /\ line.value = L_close \o <<NL>>
  /\ ~in_multiline_comment
  /\ multiline_start_marker = None
  /\ Len(comments) = 3
  /\ \A k \in 1..3 :
       /\ comments[k].line_number = line.target_line_no - 3 + k
       /\ ~comments[k].is_inline

\* C3: every file is scanned from the state (not in a block, no marker),
\* and its occurrences are those of its own added lines scanned alone.
C3_FreshPerFile ==
  /\ (pc = "lines" /\ hunk_no = 0) =>
       /\ ~in_multiline_comment
       /\ multiline_start_marker = None
       /\ comments = <<>>
  /\ pc = "lines" => ScanState = own

\* After a file that ended inside a block, a code line added to the next
\* file was scanned and not recorded.
C3_Witness ==
  /\ pc = "lines"
  /\ n_files = 2
  /\ left_open
  /\ line.line_type = "added"
  /\ line.value = L_code \o <<NL>>
  /\ comments = <<>>
  /\ ~in_multiline_comment

\* No block comment is detected on the stripped line taken by the step.
NoBlockDetected(stripped) ==
  \/ ~HasBlockMarkers
  \/ /\ ~in_multiline_comment
     /\ \A i \in 1..Len(Profile.multi_line_start) :
          ~Contains(stripped, Profile.multi_line_start[i])

\* The positions k of the single-line markers that occur in the stripped
\* line at a non-zero index.
Later(stripped) ==
  {k \in 1..Len(Profile.single_line) :
     Find(stripped, Profile.single_line[k]) > 0}

\* The text before the k-th single-line marker.
TextBefore(stripped, k) ==
  SliceTo(stripped, Find(stripped, Profile.single_line[k]))

\* The outcome of the ordered scan of the single-line markers when the
\* markers at the positions passed_over are skipped: the first marker in
\* configured order that is at index 0, or at a later index and not
\* skipped, decides.
SingleOutcome(stripped, passed_over) ==
  LET accepted == {k \in 1..Len(Profile.single_line) :
                     /\ Contains(stripped, Profile.single_line[k])
                     /\ k \notin passed_over}
  IN  IF accepted = {}
      THEN comments' = comments
      ELSE LET first == CHOOSE k \in accepted : \A j \in accepted : k <= j
           IN  comments' = Append(comments, Occurrence(first \in Later(stripped)))

\* The occurrences after a step that takes the stripped line, with the
\* markers skipped that _is_in_string rejects.
JudgedByInString(stripped) ==
  NoBlockDetected(stripped) =>
    SingleOutcome(stripped,
                  {k \in Later(stripped) : IsInString(TextBefore(stripped, k))})

\* C4: on an added line without block comment, the first accepted
\* single-line marker gives a whole-line occurrence at index 0 and an
\* inline occurrence at a later index; no accepted marker, no occurrence.
C4_SingleLineClassification ==
  [][AddedStep => JudgedByInString(Strip(line'.value))]_vars

\* `    # comment` was recorded whole-line and `    x = 5  # comment` inline.
C4_Witness ==
  /\ pc = "lines"
  /\ language = "python"
  /\ line.value = L_code_hash \o <<NL>>
  /\ Len(comments) = 2
  /\ comments[1].line_number = line.target_line_no - 1
  /\ ~comments[1].is_inline
  /\ comments[2].line_number = line.target_line_no
  /\ comments[2].is_inline

\* The quotes q of the text that no backslash immediately precedes.
Unescaped(text, q) ==
  {i \in 1..Len(text) : text[i] = q /\ (i = 1 \/ text[i - 1] # BS)}

OddUnescapedQuotes(text) ==
  \/ Cardinality(Unescaped(text, SQ)) % 2 = 1
  \/ Cardinality(Unescaped(text, DQ)) % 2 = 1

\* The same with the markers skipped that an odd number of unescaped
\* quotes precedes, and the two judgements agree.
JudgedByQuoteParity(stripped) ==
  NoBlockDetected(stripped) =>
    /\ SingleOutcome(stripped,
                     {k \in Later(stripped) :
                        OddUnescapedQuotes(TextBefore(stripped, k))})
    /\ \A k \in Later(stripped) :
         IsInString(TextBefore(stripped, k))
           <=> OddUnescapedQuotes(TextBefore(stripped, k))

\* C5: a single-line marker at a non-zero index is passed over exactly
\* when the text before it holds an odd number of unescaped single quotes
\* or of unescaped double quotes; then the next marker is tried.
C5_StringSuppression ==
  [][AddedStep => JudgedByQuoteParity(Strip(line'.value))]_vars

\* `it's # c` (one quote before the marker) gave no occurrence, then
\* `x = "a" # c` (balanced quotes) gave an inline one.
C5_Witness ==
  /\ pc = "lines"
  /\ language = "python"
  /\ n_lines = 2
  /\ line.value = L_str_hash \o <<NL>>
  /\ comments = << [filepath |-> filepath,
                    line_number |-> line.target_line_no,
                    is_inline |-> TRUE] >>

Ascending(list) ==
  \A j, k \in 1..Len(list) :
    j < k => list[j].line_number < list[k].line_number

\* C6: within one file the occurrences are in strictly ascending target
\* line number, across hunks.
C6_AscendingLineNumbers ==
  /\ Ascending(comments)
  /\ \A p \in DOMAIN comments_by_file : Ascending(comments_by_file[p])

\* Two occurrences were recorded in two hunks of one file.
C6_Witness ==
  /\ pc = "lines"
  /\ hunk_no = 2
  /\ Len(comments) = 2
  /\ comments[2].line_number > comments[1].line_number + 1

HasKnownExtension(path) ==
  \E k \in 1..Len(EXTENSION_TO_LANGUAGE) :
    EndsWith(path, EXTENSION_TO_LANGUAGE[k][1])

\* C7: a file whose path ends with no extension of the table is never a
\* key of the mapping, and its lines are never scanned.
C7_UnknownExtension ==
  /\ \A p \in DOMAIN comments_by_file : HasKnownExtension(p)
  /\ pc = "lines" => HasKnownExtension(filepath)

\* A file named a.py.txt was passed over.
C7_Witness ==
  /\ pc = "files"
  /\ n_files >= 1
  /\ filepath = P_py_txt
  /\ language = NoLanguage
  /\ DOMAIN comments_by_file = {}

\* C8: a diff whose added lines hold no marker of their file's profile
\* gives an empty mapping; the mapping never holds an empty sequence.
C8_NoCommentNoEntry ==
  /\ \A p \in DOMAIN comments_by_file : comments_by_file[p] # <<>>
  /\ (pc \in {"files", "done"} /\ ~marker_seen) =>
       DOMAIN comments_by_file = {}

\* The scan of a file with added lines, none holding a marker, returned
\* an empty mapping.
C8_Witness ==
  /\ pc = "done"
  /\ n_lines >= 1
  /\ ~marker_seen
  /\ DOMAIN comments_by_file = {}

\* An existing file was rewritten by the last step of remove_comments.
Rewrote == pc = "rewrite" /\ filepath \in DOMAIN disk

\* The occurrence names no line of the file read.
OutOfRange(comment) ==
  comment.line_number - 1 < 0 \/ comment.line_number - 1 >= Len(lines)

\* C9: a file rewritten with an empty occurrence list, or with
\* out-of-range occurrences only, is written back byte for byte as it was
\* read, whatever its line terminators and its last line.
C9_RoundTrip ==
  (Rewrote /\ \A k \in 1..Len(comments) : OutOfRange(comments[k])) =>
    disk[filepath] = original[filepath]

\* The 0-based indices of the lines that an in-range occurrence of the
\* kind names.
Targets(is_inline) ==
  {comments[k].line_number - 1 :
     k \in {j \in 1..Len(comments) :
              comments[j].is_inline = is_inline /\ ~OutOfRange(comments[j])}}

\* The lines read from index idx on, without the whole-line targets and
\* with the inline targets truncated.
RECURSIVE KeptFrom(_)
KeptFrom(idx) ==
  IF idx >= Len(lines) THEN <<>>
  ELSE (IF idx \in Targets(FALSE) THEN <<>>
        ELSE IF idx \in Targets(TRUE)
             THEN <<RemoveInlineComment(lines[idx + 1], None)>>
             ELSE <<lines[idx + 1]>>)
         \o KeptFrom(idx + 1)

\* C10: the lines written are the lines read, in their order, without the
\* lines a whole-line occurrence names and with the lines an inline
\* occurrence names truncated; every other line is written as it was read,
\* and the file written reads back as exactly these lines.
C10_OtherLinesKept ==
  Rewrote =>
    /\ new_lines = KeptFrom(0)
    /\ UniversalNewlines(Decode(disk[filepath])) = Join(new_lines)

\* The first of two lines was truncated at its inline comment; the second,
\* which holds a comment too and is named by no occurrence, was written as
\* it was read.
C10_Witness ==
  /\ Rewrote
  /\ comments = <<CommentLine(filepath, 1, TRUE)>>
  /\ lines = <<L_tail_hash \o <<NL>>, L_tail_hash \o <<NL>>>>
  /\ new_lines = << <<"x", NL>>, L_tail_hash \o <<NL>> >>

\* The in-range inline targets that are not also whole-line targets and
\* whose text the truncation changed: the lines truncated in the file.
Truncated ==
  {idx \in Targets(TRUE) \ Targets(FALSE) :
     RemoveInlineComment(lines[idx + 1], None) # lines[idx + 1]}

\* C11: the count returned for a file is the number of lines deleted from it
\* plus the number of lines whose content was truncated in the written file,
\* also when an inline occurrence names a line that holds no marker and when
\* the list names the same line index more than once.
C11_CountIsActual ==
  Rewrote =>
    stats[filepath] = Cardinality(Targets(FALSE)) + Cardinality(Truncated)

\* What _remove_comments_from_file makes of the file read at the path and
\* of the path's own occurrence list, whatever else the mapping holds.
RewrittenAlone(path) ==
  RebuildFrom(ReadLines(original[path]),
              Mark(ReadLines(original[path]), comments_by_file[path]), 0)

CountAlone(path) ==
  ModificationsCount(Mark(ReadLines(original[path]), comments_by_file[path]))

\* C12: a key of the mapping that names a missing file is neither created
\* nor written and is left out of the statistics; the call returns without
\* error and every other file of the mapping is rewritten and counted as it
\* is from its own content and occurrence list alone.
C12_MissingFile ==
  /\ warnings \cap (DOMAIN disk \cup DOMAIN stats \cup DOMAIN original) = {}
  /\ pc = "returned" =>
       /\ warnings \subseteq DOMAIN comments_by_file
       /\ DOMAIN stats = DOMAIN comments_by_file \ warnings
       /\ DOMAIN disk = DOMAIN stats
       /\ \A path \in DOMAIN stats :
            /\ disk[path] = WriteLines(RewrittenAlone(path), os_linesep)
            /\ stats[path] = CountAlone(path)

\* The call returned on a mapping of two files: one was missing, the other
\* was truncated at its inline comment and counted.
C12_Witness ==
  /\ pc = "returned"
  /\ warnings = {P_py}
  /\ DOMAIN stats = {P_js}
  /\ original[P_js] = L_tail_hash \o <<NL>>
  /\ UniversalNewlines(Decode(disk[P_js])) = <<"x", NL>>
  /\ stats[P_js] = 1

\* The occurrences of the list that name a line of the file read, in the
\* order of the list.
InRangeOnly == SelectSeq(comments, LAMBDA comment : ~OutOfRange(comment))

\* C13: an occurrence whose index is negative or not below the line count
\* of the file is ignored: the lines written and the count returned are
\* those of the list without its out-of-range occurrences, so the in-range
\* occurrences before and after it are applied and nothing is counted for
\* it.
C13_OutOfRangeIgnored ==
  Rewrote =>
    /\ new_lines = RebuildFrom(lines, Mark(lines, InRangeOnly), 0)
    /\ stats[filepath] = ModificationsCount(Mark(lines, InRangeOnly))
    /\ InRangeOnly = <<>> => (new_lines = lines /\ stats[filepath] = 0)

\* A file of one line was rewritten with a list that names line 2, past its
\* end, before line 1: line 1 was deleted and the count is 1.
C13_Witness ==
  /\ Rewrote
  /\ Len(lines) = 1
  /\ comments = << CommentLine(filepath, 2, TRUE),
                  CommentLine(filepath, 1, FALSE) >>
  /\ new_lines = <<>>
  /\ stats[filepath] = 1

\* No file was opened for reading or written.
NoFileTouched ==
  /\ disk = [p \in {} |-> <<>>]
  /\ original = [p \in {} |-> <<>>]

\* The repository validation, the diff retrieval or the diff parsing fails
\* where main() is run.
FailsBeforeRewrite ==
  \/ cli.cwd \in {"not_a_repository", "wrong_directory", "dirty"}
  \/ cli.head \in {"failed", "malformed"}

\* C14: no file is written unless the repository validation, the diff
\* retrieval and the diff parsing have all succeeded before; a validation
\* failure or a diff parse error ends the run before the scan, with exit
\* code 1 and no file touched.
C14_NoWriteBeforeValidation ==
  /\ [](FailsBeforeRewrite =>
          /\ pc \in {"main", "validated", "diff", "exited"}
          /\ NoFileTouched
          /\ pc = "exited" => cli.returned = <<1>>)
  /\ [](cli.raised \in GitValidationErrors \cup {"parse_error"} =>
          pc = "exited" /\ cli.returned = <<1>> /\ NoFileTouched)
  /\ [][disk' # disk =>
          /\ cli.cwd = "clean" /\ cli.repo = "Repo"
          /\ cli.head = "diff" /\ cli.diff_text = "diff"
          /\ cli.detector = "CommentDetector"
          /\ cli.raised = "None"]_vars

\* main() was run at the root of a clean repository whose HEAD diff
\* PatchSet rejects: it returned 1 and no file was touched.
C14_Witness ==
  /\ pc = "exited"
  /\ cli.cwd = "clean"
  /\ cli.repo = "Repo"
  /\ cli.diff_text = "malformed"
  /\ cli.raised = "parse_error"
  /\ cli.returned = <<1>>
  /\ NoFileTouched

\* FileModifier was never constructed and remove_comments never entered.
RewriterNotInvoked ==
  /\ os_linesep = None
  /\ stats = [p \in {} |-> 0]
  /\ warnings = {}
  /\ NoFileTouched

\* C15: main() returns 0 exactly when it ends without an exception: after
\* a completed rewrite, on an empty HEAD diff and on a scan without
\* comments, the rewriter being never invoked in the last two cases; it
\* returns 1 on every validation failure and every other exception.
C15_ExitCode ==
  pc = "exited" =>
    /\ cli.returned \in {<<0>>, <<1>>}
    /\ cli.returned = <<0>> <=> cli.raised = "None"
    /\ cli.returned = <<0>> <=>
         \/ cli.diff_text = ""
         \/ /\ cli.detector = "CommentDetector"
            /\ comments_by_file = [p \in {} |-> <<>>]
         \/ /\ comments_by_file # [p \in {} |-> <<>>]
            /\ Taken = DOMAIN comments_by_file
    /\ (cli.diff_text = "" \/ comments_by_file = [p \in {} |-> <<>>]) =>
         RewriterNotInvoked
    /\ cli.cwd # "clean" => cli.returned = <<1>>
    /\ cli.head \in {"failed", "malformed"} => cli.returned = <<1>>

\* main() returned 1 on an exception that is no validation failure: the
\* rewrite of the second file raised after the first file was written.
C15_Witness ==
  /\ pc = "exited"
  /\ cli.raised = "OSError"
  /\ cli.returned = <<1>>
  /\ DOMAIN disk = {P_py}
  /\ DOMAIN comments_by_file = {P_py, P_js}
  /\ disk[P_py] # original[P_py]

\* The index in the stripped line of the single-line marker that
\* _check_single_line_comment accepts, from the k-th marker on; -1 when it
\* accepts none.
RECURSIVE AcceptedFrom(_, _, _)
AcceptedFrom(stripped, single_line, k) ==
  IF k > Len(single_line) THEN -1
  ELSE LET marker_idx == Find(stripped, single_line[k])
       IN  IF marker_idx = -1 THEN AcceptedFrom(stripped, single_line, k + 1)
           ELSE IF marker_idx = 0 THEN 0
           ELSE IF IsInString(SliceTo(stripped, marker_idx))
                THEN AcceptedFrom(stripped, single_line, k + 1)
           ELSE marker_idx

\* The index in the stripped line of the marker the scanner matched: the
\* first configured block start marker that occurs in it, else the accepted
\* single-line marker.
MatchedIndex(stripped, pattern) ==
  IF pattern.multi_line_start # <<>> /\ pattern.multi_line_end # <<>>
       /\ FirstStart(stripped, pattern) # 0
  THEN Find(stripped, pattern.multi_line_start[FirstStart(stripped, pattern)])
  ELSE AcceptedFrom(stripped, pattern.single_line, 1)

\* The text of the line before the marker the scanner matched,
\* right-trimmed.
RetainedText(text, pattern) ==
  RStrip(SliceTo(text, (Len(text) - Len(LStrip(text)))
                         + MatchedIndex(Strip(text), pattern)))

\* The line scanned was recorded as an inline occurrence and truncated.
InlineTruncated ==
  /\ pc = "truncated"
  /\ comments # <<>>
  /\ comments[1].is_inline

\* C16: for every language and every added line recorded as inline, the
\* truncation of the same line on disk retains the text before the marker
\* the scanner matched, right-trimmed (for Python `x = 10 // 3  # c` it is
\* `x = 10 // 3`).
C16_TruncatesAtScannerMarker ==
  InlineTruncated =>
    RStrip(new_lines[1]) = RetainedText(line.value, Profile)

\* A marker that _remove_inline_comment looks for stands at the 0-based
\* index of the text.
RewriterMarkerAt(text, idx) ==
  \/ \E k \in 1..Len(single_line_markers) :
       MatchAt(text, single_line_markers[k], idx)
  \/ MatchAt(text, <<"/", "*">>, idx)

\* The trimmed prefix, followed by the line terminator if the original line
\* ended with one and the prefix is not empty.
Reattached(prefix, text) ==
  IF prefix = <<>> THEN <<>>
  ELSE IF EndsWith(text, <<NL>>) THEN prefix \o <<NL>>
  ELSE prefix

\* C17: the result of truncating a line is the text before the located
\* marker, right-trimmed, followed by the line terminator if and only if
\* the original line ended with one and the trimmed prefix is not empty;
\* it is the empty string when the trimmed prefix is empty.
C17_TruncationResult ==
  (pc = "truncated" /\ new_lines[1] # line.value) =>
    \E idx \in 0..(Len(line.value) - 1) :
      /\ RewriterMarkerAt(line.value, idx)
      /\ new_lines[1] =
           Reattached(RStrip(SliceTo(line.value, idx)), line.value)

\* The paired end marker occurs in the stripped line at an index greater
\* than that of the first occurrence of the start marker.
EndAfterStart(stripped, start_marker, end_marker) ==
  FindFrom(stripped, end_marker, Find(stripped, start_marker) + 1) # -1

\* C18: an added line scanned outside a block that holds a configured start
\* marker closes the block on the same line only if the paired end marker
\* occurs later in the line than the first occurrence of the start marker;
\* otherwise the block is left open and the start marker remembered, also
\* when both markers are the same string and when the end marker occurs
\* only before the start marker.
C18_ClosesOnlyAfterStart ==
  [][(AddedStep /\ HasBlockMarkers /\ ~in_multiline_comment
        /\ FirstStart(Strip(line'.value), Profile) # 0) =>
       LET stripped == Strip(line'.value)
           i == FirstStart(stripped, Profile)
           start_marker == Profile.multi_line_start[i]
       IN  IF EndAfterStart(stripped, start_marker, PairedEnd(Profile, i))
           THEN ~in_multiline_comment' /\ multiline_start_marker' = None
           ELSE /\ in_multiline_comment'
                /\ multiline_start_marker' = start_marker]_vars

\* C19: an added line that is empty or holds only whitespace yields no
\* occurrence, inside and outside an open block comment, in every language.
C19_BlankLineNoOccurrence ==
  [][(AddedStep /\ Strip(line'.value) = <<>>) => comments' = comments]_vars

\* The end marker that closes the block the start marker opened: the one at
\* its list position, or the first one when that is no position of the
\* list of end markers.
ClosingEnd(pattern, start_marker) ==
  LET i == ListIndex(pattern.multi_line_start, start_marker) + 1
  IN  IF i <= Len(pattern.multi_line_end)
      THEN pattern.multi_line_end[i]
      ELSE pattern.multi_line_end[1]

\* C20: inside a block opened by the start marker at list position i, an
\* added line closes the block if and only if its stripped text holds the
\* end marker at position i, or the first end marker when the list of end
\* markers has no position i; no other end marker closes it.
C20_ClosesOnPairedEnd ==
  [][(pc = "inside" /\ pc' = "checked") =>
       (~in_multiline_comment' <=>
          Contains(Strip(line'.value),
                   ClosingEnd(BlockProfiles[language],
                              multiline_start_marker)))]_vars

\* No line number occurs twice in the list.
NoLineTwice(list) ==
  \A j, k \in 1..Len(list) :
    list[j].line_number = list[k].line_number => j = k

\* C21: when the block check marks an added line as a comment, the
\* single-line check is not run for it: the line yields the block check's
\* occurrence only; every added line yields at most one occurrence, and no
\* line number appears twice in a file's occurrences.
C21_BlockPrecedence ==
  /\ [](NoLineTwice(comments)
          /\ \A p \in DOMAIN comments_by_file :
               NoLineTwice(comments_by_file[p]))
  /\ [][AddedStep =>
          /\ Len(comments') <= Len(comments) + 1
          /\ \A k \in 1..Len(comments) : comments'[k] = comments[k]
          /\ HasBlockMarkers =>
               LET multiline_result ==
                     CheckMultilineComment(line'.value, Profile,
                                           in_multiline_comment,
                                           multiline_start_marker)
               IN  multiline_result.is_comment =>
                     comments' =
                       Append(comments,
                              Occurrence(multiline_result.is_inline))]_vars

\* The PHP line `/* c */ // d`, which holds a one-line block and a
\* single-line marker after it, gave one whole-line occurrence.
C21_Witness ==
  /\ pc = "lines"
  /\ language = "php"
  /\ line.value = L_block_slash \o <<NL>>
  /\ Len(comments) = 1
  /\ comments[1] = CommentLine(filepath, line.target_line_no, FALSE)

\* C22: within one file the scan state is carried across hunks and changed
\* by added lines only: the start of a hunk and every context or removed
\* line, also one that holds the end marker, leave the block state and the
\* occurrences as they were.
C22_StateAcrossHunks ==
  [][(pc = "lines" /\ pc' = "lines" /\ ~AddedStep) =>
       /\ in_multiline_comment' = in_multiline_comment
       /\ multiline_start_marker' = multiline_start_marker
       /\ comments' = comments]_vars

\* A block opened by an added line of the first hunk is still open in the
\* second hunk, after a context line that holds the end marker.
C22_Witness ==
  /\ pc = "lines"
  /\ language = "c_style"
  /\ hunk_no = 2
  /\ line.line_type = "context"
  /\ line.value = L_close \o <<NL>>
  /\ in_multiline_comment
  /\ multiline_start_marker = <<"/", "*">>
  /\ Len(comments) = 1

\* C23: an added line scanned inside a block that holds the paired end
\* marker closes the block and opens no other: the state after it is
\* not-in-block without a remembered marker, also when a start marker
\* follows the end marker on the line, and the line is recorded whole-line.
C23_CloseNeverOpens ==
  [][(AddedStep /\ HasBlockMarkers /\ in_multiline_comment
        /\ Contains(Strip(line'.value),
                    EndPairedWith(multiline_start_marker))) =>
       /\ ~in_multiline_comment'
       /\ multiline_start_marker' = None
       /\ comments' = Append(comments, Occurrence(FALSE))]_vars

\* The added lines `/*` and `*/ /*` gave two whole-line occurrences, and
\* the start marker after the end marker opened no block.
C23_Witness ==
  /\ pc = "lines"
  /\ language = "c_style"
  /\ n_lines = 2
  /\ line.value = L_close_open \o <<NL>>
  /\ ~in_multiline_comment
  /\ multiline_start_marker = None
  /\ Len(comments) = 2
  /\ comments[1] = CommentLine(filepath, line.target_line_no - 1, FALSE)
  /\ comments[2] = CommentLine(filepath, line.target_line_no, FALSE)

\* C24: while a file is scanned the state is either not-in-block without a
\* marker, or in-block with one of the profile's configured start markers;
\* for a profile without both block-start and block-end markers it is
\* always the former.
C24_ScanStateInvariant ==
  pc = "lines" =>
    /\ ~in_multiline_comment => multiline_start_marker = None
    /\ in_multiline_comment =>
         /\ HasBlockMarkers
         /\ \E i \in 1..Len(Profile.multi_line_start) :
              multiline_start_marker = Profile.multi_line_start[i]

\* An HTML file is inside a block that the added line `<!--` opened, after
\* a second added line.
C24_Witness ==
  /\ pc = "lines"
  /\ language = "html"
  /\ n_lines = 2
  /\ line.line_type = "added"
  /\ in_multiline_comment
  /\ multiline_start_marker = L_html_open
  /\ Len(comments) = 2

\* The positions of the table whose extension the path ends with.
SuffixHits(path) ==
  {k \in 1..Len(EXTENSION_TO_LANGUAGE) :
     EndsWith(path, EXTENSION_TO_LANGUAGE[k][1])}

\* C25: the language of a path depends on its suffix alone: at most one
\* extension of the table is a suffix of the path, the language is that
\* extension's whatever the order the table is read in, it is None exactly
\* when no extension of the table is a suffix of the path, and a language
\* the table gives has a profile.
C25_ClassifierBySuffix ==
  pc = "classified" =>
    /\ Cardinality(SuffixHits(filepath)) <= 1
    /\ \A k \in SuffixHits(filepath) :
         language = EXTENSION_TO_LANGUAGE[k][2]
    /\ language = NoLanguage <=> SuffixHits(filepath) = {}
    /\ language # NoLanguage => HasPattern(language)

\* `a.py.c`, which holds a known extension before its last one, is a
\* C-style file.
C25_Witness ==
  /\ pc = "classified"
  /\ filepath = P_py \o <<".", "c">>
  /\ language = "c_style"
  /\ HasPattern(language)

=============================================================================
